---- MODULE Spec2Model ----
(***************************************************************************)
(* A model of libpathod/language.py: message resolution (Response.resolve, *)
(* Request.resolve, WebsocketFrame.resolve, _Action.resolve), freeze, file *)
(* values (ValueFile.get_generator), the emitter (serve, write_values,     *)
(* send_chunk) and, in a second specification, the Method token.           *)
(*                                                                         *)
(* Byte strings are TLA+ strings where only their text and length matter   *)
(* (tokens, header values); the writer's stream is the sequence of write   *)
(* calls, each naming the bytes it carries by value and position.          *)
(***************************************************************************)
EXTENDS Integers, Sequences, FiniteSets, TLC

VARIABLES msg, settings, blocksize, pc, res, em, sh

vars == <<msg, settings, blocksize, pc, res, em, sh>>

(***************************************************************************)
(* Program constants and bounds of the model.                              *)
(***************************************************************************)
BLOCKSIZE == 1024

\* Integer action offsets 0..MaxOff are enumerated for the emitter inputs.
MaxOff == 3

\* A small block size handed to write_values beside the default BLOCKSIZE.
SmallBlock == 3

Min(a, b) == IF a < b THEN a ELSE b

(***************************************************************************)
(* Values and their generators.                                            *)
(***************************************************************************)
ValueLiteral(s) == [vk |-> "lit", s |-> s]

\* usize * SIZE_UNITS[unit] bytes of random data; only the length is fixed.
ValueGenerate(n) == [vk |-> "gen", n |-> n]

\* <path: the path is a sequence of characters, as are all file names.
ValueFile(path) == [vk |-> "file", path |-> path]

LiteralGenerator(s) == [g |-> "lit", s |-> s]

RandomGenerator(n) == [g |-> "rand", n |-> n]

(***************************************************************************)
(* The file system ValueFile.get_generator looks at, and the os.path       *)
(* functions it calls, on paths that are sequences of characters.          *)
(***************************************************************************)
\* Every file of the modelled file system holds FileLen bytes.
FileLen == 4

\* os.getcwd() and the home directory of the user.
Cwd == <<"/", "w">>
Home == <<"/", "h">>

\* The regular files that exist.
Files ==
    { <<"/", "s", "/", "f">>,
      <<"/", "s", "e", "/", "f">>,
      <<"/", "f">>,
      <<"/", "h", "/", "f">>,
      <<"/", "w", "/", "s", "/", "f">>,
      <<"/", "w", "/", "f">> }

\* os.path.isfile
isfile(p) == p \in Files

\* str.startswith
startswith(s, prefix) ==
    Len(prefix) <= Len(s) /\ SubSeq(s, 1, Len(prefix)) = prefix

\* str.split("/"): cur is the component read so far.
RECURSIVE split(_, _)
split(p, cur) ==
    IF p = <<>> THEN <<cur>>
    ELSE IF Head(p) = "/" THEN <<cur>> \o split(Tail(p), <<>>)
    ELSE split(Tail(p), Append(cur, Head(p)))

\* "/".join(comps)
RECURSIVE joinslash(_)
joinslash(comps) ==
    IF comps = <<>> THEN <<>>
    ELSE IF Len(comps) = 1 THEN comps[1]
    ELSE comps[1] \o <<"/">> \o joinslash(Tail(comps))

\* The loop of posixpath.normpath over the components.
RECURSIVE normcomps(_, _, _)
normcomps(comps, new, initial_slashes) ==
    IF comps = <<>> THEN new
    ELSE LET comp == Head(comps)
             dotdot == <<".", ".">>
         IN  IF comp = <<>> \/ comp = <<".">>
             THEN normcomps(Tail(comps), new, initial_slashes)
             ELSE IF comp # dotdot
                     \/ (initial_slashes = 0 /\ new = <<>>)
                     \/ (new # <<>> /\ new[Len(new)] = dotdot)
             THEN normcomps(Tail(comps), Append(new, comp), initial_slashes)
             ELSE IF new # <<>>
             THEN normcomps(Tail(comps), SubSeq(new, 1, Len(new) - 1), initial_slashes)
             ELSE normcomps(Tail(comps), new, initial_slashes)

\* os.path.normpath
normpath(p) ==
    IF p = <<>> THEN <<".">>
    ELSE LET initial_slashes ==
                 IF ~startswith(p, <<"/">>) THEN 0
                 ELSE IF startswith(p, <<"/", "/">>) /\ ~startswith(p, <<"/", "/", "/">>)
                 THEN 2 ELSE 1
             body == joinslash(normcomps(split(p, <<>>), <<>>, initial_slashes))
             r == [i \in 1..initial_slashes |-> "/"] \o body
         IN  IF r = <<>> THEN <<".">> ELSE r

\* os.path.join(a, b)
join(a, b) ==
    IF startswith(b, <<"/">>) THEN b
    ELSE IF a = <<>> \/ a[Len(a)] = "/" THEN a \o b
    ELSE a \o <<"/">> \o b

\* os.path.abspath
abspath(p) == normpath(IF startswith(p, <<"/">>) THEN p ELSE join(Cwd, p))

\* os.path.expanduser: ~ and ~/... name the home directory; no other user
\* is known, so ~name stays as it is.
expanduser(p) ==
    IF ~startswith(p, <<"~">>) THEN p
    ELSE IF Len(p) > 1 /\ p[2] # "/" THEN p
    ELSE Home \o SubSeq(p, 2, Len(p))

FileGenerator(path) == [g |-> "file", path |-> path, n |-> FileLen]

\* raise FileAccessDenied(why)
FileAccessDenied(why) == [g |-> "denied", why |-> why]

\* The path ValueFile.get_generator opens.
FilePath(path, s) == normpath(abspath(join(s.staticdir, expanduser(path))))

\* ValueFile.get_generator(settings)
ValueFile_get_generator(path, s) ==
    IF s.staticdir = <<>> THEN FileAccessDenied("File access disabled.")
    ELSE LET p == FilePath(path, s)
         IN  IF ~s.unconstrained_file_access /\ ~startswith(p, s.staticdir)
             THEN FileAccessDenied("File access outside of configured directory")
             ELSE IF ~isfile(p) THEN FileAccessDenied("File not readable")
             ELSE FileGenerator(p)

\* value.get_generator(settings), with the settings of the state.
get_generator(value) ==
    IF value.vk = "lit" THEN LiteralGenerator(value.s)
    ELSE IF value.vk = "gen" THEN RandomGenerator(value.n)
    ELSE ValueFile_get_generator(value.path, settings)

\* __len__ of a generator (a plain str in a values list is a literal).
GenLen(g) == IF g.g = "lit" THEN Len(g.s) ELSE IF g.g = "denied" THEN 0 ELSE g.n

\* Did the construction of one of these generators raise FileAccessDenied?
Denied(gens) == \E i \in 1..Len(gens) : gens[i].g = "denied"

(***************************************************************************)
(* Tokens.  An offset is an integer, "r" or "a"; a pause lasts an integer  *)
(* number of seconds or "f".                                               *)
(***************************************************************************)
OffInt(n) == [sym |-> "int", n |-> n]
OffR == [sym |-> "r", n |-> 0]
OffA == [sym |-> "a", n |-> 0]

Secs(n) == [sym |-> "int", n |-> n]
Forever == [sym |-> "f", n |-> 0]

None == [t |-> "None"]

Code(code) == [t |-> "Code", code |-> ToString(code)]
Method(value) == [t |-> "Method", value |-> value]
Path(value) == [t |-> "Path", value |-> value]
Reason(value) == [t |-> "Reason", value |-> value]
WS == [t |-> "WS"]
WF == [t |-> "WF"]
Raw == [t |-> "Raw"]
Header(key, value) == [t |-> "Header", key |-> key, value |-> value]
Body(value) == [t |-> "Body", value |-> value]
PauseAt(offset, seconds) == [t |-> "PauseAt", offset |-> offset, seconds |-> seconds]
DisconnectAt(offset) == [t |-> "DisconnectAt", offset |-> offset]
InjectAt(offset, value) == [t |-> "InjectAt", offset |-> offset, value |-> value]

IsHeader(x) == x.t = "Header"
IsAction(x) == x.t \in {"PauseAt", "DisconnectAt", "InjectAt"}

Message(klass, tokens) == [klass |-> klass, tokens |-> tokens]

\* _Message.tok: the first token of a kind, or None.
tok(m, kind) ==
    LET l == SelectSeq(m.tokens, LAMBDA x : x.t = kind)
    IN  IF l # <<>> THEN l[1] ELSE None

has(m, kind) == tok(m, kind) # None

raw(m) == has(m, "Raw")

headers(m) == SelectSeq(m.tokens, IsHeader)

\* Positions of the action tokens in the token list, in token order
\* (_Message.actions, kept as indices so that a dispatch can be traced back).
RECURSIVE ActionIdx(_, _)
ActionIdx(tokens, i) ==
    IF i > Len(tokens) THEN <<>>
    ELSE (IF IsAction(tokens[i]) THEN <<i>> ELSE <<>>) \o ActionIdx(tokens, i + 1)

actions(m) == ActionIdx(m.tokens, 1)

(***************************************************************************)
(* Reference data and helpers that live outside language.py.               *)
(***************************************************************************)
\* http_status.RESPONSES.get(code, "Unknown code")
RESPONSES(code) ==
    CASE code = "101" -> "Switching Protocols"
      [] code = "200" -> "OK"
      [] code = "400" -> "Bad Request"
      [] OTHER -> "Unknown code"

\* websockets.server_handshake_headers(key).lst
server_handshake_headers(key) ==
    << <<"Connection", "Upgrade">>,
       <<"Upgrade", "websocket">>,
       <<"Sec-WebSocket-Accept", "accept-" \o key>> >>

\* websockets.client_handshake_headers().lst
client_handshake_headers ==
    << <<"Connection", "Upgrade">>,
       <<"Upgrade", "websocket">>,
       <<"Sec-WebSocket-Key", "clientkey">>,
       <<"Sec-WebSocket-Version", "13">> >>

\* websockets.FrameHeader().to_bytes(): the two bytes 0x82 0x00 of the header
\* of an empty, unmasked, final binary frame, written as two characters.
FrameHeader == "B0"

\* utils.get_header(val, headers): is a header with this key present?
\* (The modelled header keys are literals.)
get_header(val, hdrs) ==
    \E i \in 1..Len(hdrs) : hdrs[i].key.vk = "lit" /\ hdrs[i].key.s = val

(***************************************************************************)
(* Message.values and Message.length.                                      *)
(***************************************************************************)
HeaderValues(h) ==
    << get_generator(h.key), LiteralGenerator(": "),
       get_generator(h.value), LiteralGenerator("\r\n") >>

RECURSIVE AllHeaderValues(_)
AllHeaderValues(hdrs) ==
    IF hdrs = <<>> THEN <<>>
    ELSE HeaderValues(Head(hdrs)) \o AllHeaderValues(Tail(hdrs))

ResponsePreamble(m) ==
    LET code == tok(m, "Code").code
    IN  << LiteralGenerator("HTTP/1.1"), LiteralGenerator(" "),
           LiteralGenerator(code), LiteralGenerator(" ") >>
        \o (IF has(m, "Reason")
            THEN <<get_generator(tok(m, "Reason").value)>>
            ELSE <<LiteralGenerator(RESPONSES(code))>>)

\* Request.preamble (the modelled requests carry no PathodSpec token).
RequestPreamble(m) ==
    << get_generator(tok(m, "Method").value), LiteralGenerator(" "),
       get_generator(tok(m, "Path").value),
       LiteralGenerator(" "), LiteralGenerator("HTTP/1.1") >>

preamble(m) == IF m.klass = "Response" THEN ResponsePreamble(m) ELSE RequestPreamble(m)

\* WebsocketFrame.values
FrameValues(m) ==
    <<LiteralGenerator(FrameHeader)>>
    \o (IF has(m, "Body") THEN <<get_generator(tok(m, "Body").value)>> ELSE <<>>)

values(m) ==
    IF m.klass = "WebsocketFrame" THEN FrameValues(m)
    ELSE preamble(m) \o <<LiteralGenerator("\r\n")>>
         \o AllHeaderValues(headers(m))
         \o <<LiteralGenerator("\r\n")>>
         \o (IF has(m, "Body") THEN <<get_generator(tok(m, "Body").value)>> ELSE <<>>)

RECURSIVE SumLen(_)
SumLen(vals) == IF vals = <<>> THEN 0 ELSE GenLen(Head(vals)) + SumLen(Tail(vals))

length(m) == SumLen(values(m))

(***************************************************************************)
(* resolve.                                                                *)
(***************************************************************************)
\* list.insert(1, x)
Insert1(tokens, x) ==
    IF tokens = <<>> THEN <<x>> ELSE <<Head(tokens), x>> \o Tail(tokens)

\* The handshake headers whose key the message does not carry yet.
RECURSIVE MissingHandshake(_, _)
MissingHandshake(lst, hdrs) ==
    IF lst = <<>> THEN <<>>
    ELSE (IF ~get_header(Head(lst)[1], hdrs)
          THEN <<Header(ValueLiteral(Head(lst)[1]), ValueLiteral(Head(lst)[2]))>>
          ELSE <<>>)
         \o MissingHandshake(Tail(lst), hdrs)

BodyLength(m) ==
    IF ~has(m, "Body") THEN 0 ELSE GenLen(get_generator(tok(m, "Body").value))

ContentLength(n) == Header(ValueLiteral("Content-Length"), ValueLiteral(ToString(n)))

\* Response.resolve raises RenderError: a WS response without websocket_key.
ResponseRenderError(m, s) == has(m, "WS") /\ s.websocket_key = ""

ResponseTokens_DoubleLength(m, s) ==
    LET t1 == IF has(m, "WS") /\ ~has(m, "Code") THEN Insert1(m.tokens, Code(101)) ELSE m.tokens
        t2 == IF has(m, "WS")
              THEN t1 \o MissingHandshake(server_handshake_headers(s.websocket_key), headers(m))
              ELSE t1
    IN  IF ~raw(m) THEN Append(t2, ContentLength(BodyLength(m))) ELSE t2

ResponseTokens_NoLengthForWS(m, s) ==
    LET t1 == IF has(m, "WS") /\ ~has(m, "Code") THEN Insert1(m.tokens, Code(101)) ELSE m.tokens
        t2 == IF has(m, "WS")
              THEN t1 \o MissingHandshake(server_handshake_headers(s.websocket_key), headers(m))
              ELSE t1
    IN  IF ~raw(m) /\ ~has(m, "WS") /\ ~get_header("Content-Length", headers(m))
        THEN Append(t2, ContentLength(BodyLength(m)))
        ELSE t2

\* The token list Response.resolve builds before it resolves the tokens.
ResponseTokens(m, s) ==
    LET t1 == IF has(m, "WS") /\ ~has(m, "Code") THEN Insert1(m.tokens, Code(101)) ELSE m.tokens
        t2 == IF has(m, "WS")
              THEN t1 \o MissingHandshake(server_handshake_headers(s.websocket_key), headers(m))
              ELSE t1
    IN  IF ~raw(m) /\ ~get_header("Content-Length", headers(m))
        THEN Append(t2, ContentLength(BodyLength(m)))
        ELSE t2

\* The token list Request.resolve builds before it resolves the tokens.
RequestTokens(m, s) ==
    LET t1 == IF has(m, "WS") /\ ~has(m, "Method")
              THEN Insert1(m.tokens, Method(ValueLiteral("GET"))) ELSE m.tokens
        t2 == IF has(m, "WS")
              THEN t1 \o MissingHandshake(client_handshake_headers, headers(m))
              ELSE t1
        t3 == IF ~raw(m) /\ ~get_header("Content-Length", headers(m)) /\ has(m, "Body")
              THEN Append(t2, ContentLength(BodyLength(m)))
              ELSE t2
    IN  IF ~raw(m) /\ s.request_host # "" /\ ~get_header("Host", headers(m))
        THEN Append(t3, Header(ValueLiteral("Host"), ValueLiteral(s.request_host)))
        ELSE t3

\* WebsocketFrame.resolve resolves the tokens it has.
ResolveTokens(m, s) ==
    IF m.klass = "Response" THEN ResponseTokens(m, s)
    ELSE IF m.klass = "Request" THEN RequestTokens(m, s)
    ELSE m.tokens

\* WebsocketFrame.resolve hands its own msg argument, None when serve or
\* freeze call it, to every token; _Action.resolve then evaluates
\* None.length(settings), an AttributeError.
ResolveAttributeError(m) == m.klass = "WebsocketFrame" /\ actions(m) # <<>>

\* resolve raises FileAccessDenied: it reads the length of the body for the
\* Content-Length header, and every action token reads msg.length(settings).
ResolveDenied(m, s) ==
    \/ /\ ~raw(m) /\ ~get_header("Content-Length", headers(m)) /\ has(m, "Body")
       /\ Denied(<<get_generator(tok(m, "Body").value)>>)
    \/ /\ actions(m) # <<>>
       /\ Denied(values(Message(m.klass, ResolveTokens(m, s))))

\* resolve raises RenderError (FileAccessDenied is a RenderError).
RenderError(m, s) ==
    \/ m.klass = "Response" /\ ResponseRenderError(m, s)
    \/ m.klass \in {"Response", "Request"} /\ ResolveDenied(m, s)

ActionResolve_PastEndOffByOne(t, l, draw) ==
    IF t.offset.sym = "r" THEN [t EXCEPT !.offset = OffInt(draw)]
    ELSE IF t.offset.sym = "a" THEN [t EXCEPT !.offset = OffInt(l)]
    ELSE t

\* _Action.resolve: draw is the value random.randrange(l) returns.
ActionResolve(t, l, draw) ==
    IF t.offset.sym = "r" THEN [t EXCEPT !.offset = OffInt(draw)]
    ELSE IF t.offset.sym = "a" THEN [t EXCEPT !.offset = OffInt(l + 1)]
    ELSE t

\* The positions whose resolution draws a random number.
RandomIdx(tokens) ==
    {i \in 1..Len(tokens) : IsAction(tokens[i]) /\ tokens[i].offset.sym = "r"}

\* resolve of a Request or Response; rnd[i] is the draw of token i.
Resolve(m, s, rnd) ==
    LET tokens == ResolveTokens(m, s)
        intermediate == Message(m.klass, tokens)
        l == length(intermediate)
    IN  Message(m.klass,
                [i \in 1..Len(tokens) |->
                    IF IsAction(tokens[i])
                    THEN ActionResolve(tokens[i], l, IF i \in DOMAIN rnd THEN rnd[i] ELSE 0)
                    ELSE tokens[i]])

\* Every draw random.randrange(l) can return, for each random offset.
Draws(m, s) ==
    LET tokens == ResolveTokens(m, s)
    IN  [RandomIdx(tokens) -> 0..(length(Message(m.klass, tokens)) - 1)]

(***************************************************************************)
(* freeze.                                                                 *)
(***************************************************************************)
\* The characters a random generator is seen to draw.
RandomChars == {"a", "b"}

\* n characters c: the bytes g[:] of a random generator that drew c each time.
RECURSIVE Rep(_, _)
Rep(c, n) == IF n = 0 THEN "" ELSE c \o Rep(c, n - 1)

\* _ValueLiteral.freeze, ValueGenerate.freeze, ValueFile.freeze
ValueFreeze(v, c) ==
    IF v.vk = "gen" THEN ValueLiteral(Rep(c, GenLen(get_generator(v)))) ELSE v

\* The freeze of each token class; c is what the token's generators draw.
TokenFreeze(t, c) ==
    CASE t.t = "Header" -> Header(ValueFreeze(t.key, c), ValueFreeze(t.value, c))
      [] t.t = "Body" -> Body(ValueFreeze(t.value, c))
      [] t.t = "Path" -> Path(ValueFreeze(t.value, c))
      [] t.t = "Method" -> Method(ValueFreeze(t.value, c))
      [] t.t = "Reason" -> Reason(ValueFreeze(t.value, c))
      [] t.t = "InjectAt" -> InjectAt(t.offset, ValueFreeze(t.value, c))
      [] OTHER -> t

\* The values a token carries.
TokenValues(t) ==
    CASE t.t = "Header" -> {t.key, t.value}
      [] t.t \in {"Body", "Path", "Method", "Reason", "InjectAt"} -> {t.value}
      [] OTHER -> {}

\* The positions of the tokens with a Generate value.
GenerateIdx(tokens) ==
    {i \in 1..Len(tokens) : \E v \in TokenValues(tokens[i]) : v.vk = "gen"}

\* _Message.freeze: r = self.resolve(settings), then the freeze of each token.
Freeze(m, s, rnd, data) ==
    LET r == Resolve(m, s, rnd)
    IN  Message(m.klass,
                [i \in 1..Len(r.tokens) |->
                    TokenFreeze(r.tokens[i], IF i \in DOMAIN data THEN data[i] ELSE "a")])

(***************************************************************************)
(* send_chunk.  The writer's stream is the sequence of write calls, each   *)
(* the slice [lo, hi) of value number id (src "val") or of the inject      *)
(* argument of token number id (src "inj").                                *)
(***************************************************************************)
\* The slices val[i:min(i + blocksize, end)] for i in range(start, end, blocksize).
RECURSIVE Chunks(_, _, _)
Chunks(start, end, bs) ==
    IF start >= end THEN <<>>
    ELSE <<[lo |-> start, hi |-> Min(start + bs, end)]>> \o Chunks(start + bs, end, bs)

\* The writes send_chunk(fp, val, blocksize, start, end) makes on a value of
\* length len when its j-th write raises (j = 0: no write raises).
Writes(src, id, len, bs, start, end, j) ==
    LET c == Chunks(start, end, bs)
        n == IF j = 0 THEN Len(c) ELSE j - 1
    IN  [k \in 1..n |-> [src |-> src, id |-> id, lo |-> c[k].lo, hi |-> Min(c[k].hi, len)]]

\* return end - start
SendChunkResult(start, end) == end - start

\* How many times send_chunk calls fp.write.
NWrites(bs, start, end) == Len(Chunks(start, end, bs))

(***************************************************************************)
(* serve: the inputs of write_values.                                      *)
(***************************************************************************)
\* list.sort() on the actions, comparing offsets (_Action.__cmp__): an
\* insertion that keeps equal offsets in their order, as Python's sort does.
RECURSIVE InsertSorted(_, _, _)
InsertSorted(sorted, i, tokens) ==
    IF sorted = <<>> THEN <<i>>
    ELSE IF tokens[i].offset.n < tokens[Head(sorted)].offset.n
         THEN <<i>> \o sorted
         ELSE <<Head(sorted)>> \o InsertSorted(Tail(sorted), i, tokens)

RECURSIVE Sort(_, _)
Sort(idx, tokens) ==
    IF idx = <<>> THEN <<>>
    ELSE InsertSorted(Sort(SubSeq(idx, 1, Len(idx) - 1), tokens), idx[Len(idx)], tokens)

Reverse(s) == [i \in 1..Len(s) |-> s[Len(s) + 1 - i]]

\* PauseAt.intermediate, DisconnectAt.intermediate, InjectAt.intermediate;
\* tix remembers the token the tuple came from.
intermediate(t, i) ==
    [off |-> t.offset.n, tix |-> i,
     kind |-> CASE t.t = "PauseAt" -> "pause"
                [] t.t = "DisconnectAt" -> "disconnect"
                [] OTHER -> "inject",
     arg |-> CASE t.t = "PauseAt" -> t.seconds
               [] t.t = "InjectAt" -> get_generator(t.value)
               [] OTHER -> None]

ServeActions_Unreversed(m) ==
    LET idx == Sort(actions(m), m.tokens)
    IN  [k \in 1..Len(idx) |-> intermediate(m.tokens[idx[k]], idx[k])]

\* serve: msg.actions[:], sort(), reverse(), intermediate of each.
ServeActions(m) ==
    LET idx == Reverse(Sort(actions(m), m.tokens))
    IN  [k \in 1..Len(idx) |-> intermediate(m.tokens[idx[k]], idx[k])]

\* serve: msg.values(settings), reverse(); vi numbers the values.
ServeValues(m) ==
    LET v == values(m)
    IN  Reverse([i \in 1..Len(v) |-> [vi |-> i, gen |-> v[i]]])

(***************************************************************************)
(* write_values, one operator per step of its loops, on an emitter state   *)
(*   pc      "outer": at `while vals` (and, with vals empty, at the        *)
(*           remainders loop); "inner": at the inner `while`;              *)
(*           "dispatch": an action was popped and is about to act;         *)
(*           "returned" / "raised": the call is over                       *)
(*   out     the writes made so far; disp: the actions dispatched so far,  *)
(*           each with the number of value bytes written before it         *)
(*   failed  the writer raised its disconnect exception                    *)
(***************************************************************************)
NoValue == [vi |-> 0, gen |-> LiteralGenerator("")]
NoAction == [off |-> 0, tix |-> 0, kind |-> "none", arg |-> None]

Emitter(vals, acts) ==
    [pc |-> "outer", vals |-> vals, actions |-> acts, sofar |-> 0, offset |-> 0,
     v |-> NoValue, a |-> NoAction, inloop |-> FALSE,
     out |-> <<>>, disp |-> <<>>, result |-> "unset", failed |-> FALSE]

Idle == [Emitter(<<>>, <<>>) EXCEPT !.pc = "idle"]

Pop(s) == SubSeq(s, 1, Len(s) - 1)
Top(s) == s[Len(s)]

RECURSIVE ValueBytes(_)
ValueBytes(out) ==
    IF out = <<>> THEN 0
    ELSE (IF Head(out).src = "val" THEN Head(out).hi - Head(out).lo ELSE 0)
         + ValueBytes(Tail(out))

\* except tcp.NetLibDisconnect: return True
Disconnected(e, out) ==
    [e EXCEPT !.out = out, !.pc = "returned", !.result = "True", !.failed = TRUE]

\* v = vals.pop(); offset = 0
WV_PopValue(e) ==
    [e EXCEPT !.v = Top(e.vals), !.vals = Pop(e.vals), !.offset = 0,
              !.pc = "inner", !.inloop = TRUE]

\* while actions and actions[-1][0] < (sofar + len(v))
ActionDue(e) ==
    e.actions # <<>> /\ Top(e.actions).off < e.sofar + GenLen(e.v.gen)

ChunkEnd_WholeValue(e, a) == GenLen(e.v.gen)

\* The end send_chunk is given for the bytes before the action.
ChunkEnd(e, a) == a.off - e.sofar - e.offset

\* a = actions.pop(); offset += send_chunk(fp, v, blocksize, offset, a[0] - sofar - offset)
WV_PopAction(e, bs, j) ==
    LET a == Top(e.actions)
        end == ChunkEnd(e, a)
        out == e.out \o Writes("val", e.v.vi, GenLen(e.v.gen), bs, e.offset, end, j)
    IN  IF j # 0 THEN Disconnected([e EXCEPT !.actions = Pop(e.actions), !.a = a], out)
        ELSE [e EXCEPT !.actions = Pop(e.actions), !.a = a, !.out = out,
                       !.offset = e.offset + SendChunkResult(e.offset, end),
                       !.pc = "dispatch"]

\* send_chunk(fp, v, blocksize, offset, len(v)); sofar += len(v)
WV_SendRest(e, bs, j) ==
    LET l == GenLen(e.v.gen)
        out == e.out \o Writes("val", e.v.vi, l, bs, e.offset, l, j)
    IN  IF j # 0 THEN Disconnected(e, out)
        ELSE [e EXCEPT !.out = out, !.sofar = e.sofar + l, !.pc = "outer", !.inloop = FALSE]

\* The action in hand is dispatched now.
Dispatched(e) == Append(e.disp, [tix |-> e.a.tix, at |-> ValueBytes(e.out)])

Resume(e) == IF e.inloop THEN "inner" ELSE "outer"

\* time.sleep(a[2]): "f" is no number and time.sleep raises TypeError.
WV_Pause(e) ==
    [e EXCEPT !.disp = Dispatched(e),
              !.pc = IF e.a.arg.sym = "f" THEN "raised" ELSE Resume(e)]

WV_Disconnect_Continues(e) ==
    [e EXCEPT !.disp = Dispatched(e), !.pc = Resume(e)]

\* return True
WV_Disconnect(e) ==
    [e EXCEPT !.disp = Dispatched(e), !.pc = "returned", !.result = "True"]

WV_Inject_CountsInjected(e, bs, j) ==
    LET l == GenLen(e.a.arg)
        out == e.out \o Writes("inj", e.a.tix, l, bs, 0, l, j)
    IN  IF j # 0 THEN Disconnected([e EXCEPT !.disp = Dispatched(e)], out)
        ELSE [e EXCEPT !.disp = Dispatched(e), !.out = out,
                       !.offset = e.offset + l, !.pc = Resume(e)]

\* send_chunk(fp, a[2], blocksize, 0, len(a[2])), its result dropped
WV_Inject(e, bs, j) ==
    LET l == GenLen(e.a.arg)
        out == e.out \o Writes("inj", e.a.tix, l, bs, 0, l, j)
    IN  IF j # 0 THEN Disconnected([e EXCEPT !.disp = Dispatched(e)], out)
        ELSE [e EXCEPT !.disp = Dispatched(e), !.out = out, !.pc = Resume(e)]

\* Remainders: a = actions.pop()
WV_PopRemainder(e) ==
    [e EXCEPT !.a = Top(e.actions), !.actions = Pop(e.actions), !.pc = "dispatch"]

\* Falling off the end of write_values returns None.
WV_Return(e) == [e EXCEPT !.pc = "returned", !.result = "None"]

\* One step of write_values on a writer that never fails.
WV_Step(e, bs) ==
    CASE e.pc = "outer" /\ e.vals # <<>> -> WV_PopValue(e)
      [] e.pc = "outer" /\ e.vals = <<>> /\ e.actions # <<>> -> WV_PopRemainder(e)
      [] e.pc = "outer" /\ e.vals = <<>> /\ e.actions = <<>> -> WV_Return(e)
      [] e.pc = "inner" /\ ActionDue(e) -> WV_PopAction(e, bs, 0)
      [] e.pc = "inner" /\ ~ActionDue(e) -> WV_SendRest(e, bs, 0)
      [] e.pc = "dispatch" /\ e.a.kind = "pause" -> WV_Pause(e)
      [] e.pc = "dispatch" /\ e.a.kind = "disconnect" -> WV_Disconnect(e)
      [] e.pc = "dispatch" /\ e.a.kind = "inject" -> WV_Inject(e, bs, 0)
      [] OTHER -> e

(***************************************************************************)
(* The messages and settings the model serves.                             *)
(***************************************************************************)
Lit(s) == ValueLiteral(s)

NoMessage == Message("None", <<>>)

\* Settings(): staticdir None (the empty path) and unconstrained_file_access
\* False are the defaults.
Settings(key, host) ==
    [websocket_key |-> key, request_host |-> host,
     staticdir |-> <<>>, unconstrained_file_access |-> FALSE]

FileSettings(staticdir, uf) ==
    [Settings("", "") EXCEPT !.staticdir = staticdir, !.unconstrained_file_access = uf]

ResponseHeads == {<<Code(200)>>, <<WS>>, <<WS, Code(200)>>}

RequestHeads ==
    { <<Method(Lit("GET")), Path(Lit("/"))>>,
      <<WS, Path(Lit("/"))>>,
      <<WS, Method(Lit("GET")), Path(Lit("/"))>> }

UserHeaders ==
    { <<>>,
      <<Header(Lit("Content-Length"), Lit("7"))>>,
      <<Header(Lit("X"), Lit("Y"))>>,
      <<Header(Lit("Host"), Lit("example"))>>,
      <<Header(Lit("Upgrade"), Lit("h2c"))>>,
      <<Header(Lit("X"), Lit("Y")), Header(Lit("Content-Length"), Lit("7"))>> }

Bodies == {<<>>, <<Body(Lit("hello"))>>, <<Body(ValueGenerate(12))>>}

RawFlags == {<<>>, <<Raw>>}

\* Messages that differ in what resolve has to synthesize.
HeaderCases ==
    { [msg |-> Message("Response", h \o u \o b \o r), settings |-> Settings(k, ""),
       blocksize |-> BLOCKSIZE]
        : h \in ResponseHeads, u \in UserHeaders, b \in Bodies, r \in RawFlags,
          k \in {"", "K"} }
    \cup
    { [msg |-> Message("Request", h \o u \o b \o r), settings |-> Settings("", q),
       blocksize |-> BLOCKSIZE]
        : h \in RequestHeads, u \in UserHeaders, b \in Bodies, r \in RawFlags,
          q \in {"", "h"} }

\* Messages whose actions carry the offsets r and a.
SymbolicActions ==
    { <<PauseAt(OffR, Secs(1))>>,
      <<DisconnectAt(OffR)>>,
      <<InjectAt(OffA, Lit("XY"))>>,
      <<PauseAt(OffA, Secs(1)), DisconnectAt(OffInt(2))>> }

OffsetCases ==
    { [msg |-> Message(c[1], c[2] \o b \o a), settings |-> c[3], blocksize |-> BLOCKSIZE]
        : c \in { <<"Response", <<Code(200)>>, Settings("", "")>>,
                  <<"Response", <<WS>>, Settings("K", "")>>,
                  <<"Request", <<Method(Lit("GET")), Path(Lit("/"))>>, Settings("", "h")>> },
          b \in {<<>>, <<Body(Lit("hello"))>>},
          a \in SymbolicActions }

\* Responses with one or two actions at integer offsets: in the first value
\* (HTTP/1.1), at its end (8), in the body or past the end (40).
EmitOffsets == (0..MaxOff) \cup {8, 40}

EmitActions ==
    { PauseAt(OffInt(o), Secs(1)) : o \in EmitOffsets }
    \cup { PauseAt(OffInt(2), Forever) }
    \cup { DisconnectAt(OffInt(o)) : o \in {2, 40} }
    \cup { InjectAt(OffInt(o), Lit("XYZW")) : o \in EmitOffsets }

EmitCases ==
    { [msg |-> Message("Response", <<Code(200)>> \o b \o a), settings |-> Settings("", ""),
       blocksize |-> bs]
        : b \in {<<>>, <<Body(Lit("hello"))>>},
          a \in { <<x>> : x \in EmitActions } \cup (EmitActions \X EmitActions),
          bs \in {SmallBlock, BLOCKSIZE} }

\* Responses with three actions that share offsets or come out of order.
TripleActions ==
    { PauseAt(OffInt(1), Secs(1)), PauseAt(OffInt(3), Secs(1)),
      InjectAt(OffInt(3), Lit("XYZW")), DisconnectAt(OffInt(5)) }

TripleCases ==
    { [msg |-> Message("Response", <<Code(200)>> \o <<a[1], a[2], a[3]>>),
       settings |-> Settings("", ""), blocksize |-> bs]
        : a \in TripleActions \X TripleActions \X TripleActions,
          bs \in {SmallBlock, BLOCKSIZE} }

\* Messages with a file or a generated value in each place a value can stand,
\* served with file access disabled, confined to /s, and unconstrained.
FileValues ==
    { ValueFile(<<"f">>), ValueFile(<<".", ".", "/", "f">>), ValueFile(<<"e">>),
      ValueGenerate(2) }

ValueTokens(v) ==
    { <<"Response", <<Code(200), Body(v)>>>>,
      <<"Response", <<Code(200), Raw, Body(v)>>>>,
      <<"Response", <<Code(200), Header(v, Lit("Y"))>>>>,
      <<"Response", <<Code(200), Header(Lit("X"), v), Body(Lit("hello"))>>>>,
      <<"Response", <<Code(200), Reason(v), Raw>>>>,
      <<"Response", <<Code(200), Reason(v), PauseAt(OffA, Secs(1))>>>>,
      <<"Response", <<Code(200), InjectAt(OffInt(2), v), Body(Lit("hello"))>>>>,
      <<"Response", <<Code(200), Raw, InjectAt(OffInt(40), v)>>>>,
      <<"Request", <<Method(Lit("GET")), Path(v)>>>>,
      <<"Request", <<Method(v), Path(Lit("/")), Raw>>>> }

FileValueCases ==
    { [msg |-> Message(c[1], c[2]), settings |-> FileSettings(d, uf), blocksize |-> bs]
        : c \in UNION { ValueTokens(v) : v \in FileValues },
          d \in {<<>>, <<"/", "s">>}, uf \in BOOLEAN, bs \in {SmallBlock, BLOCKSIZE} }

\* Websocket frames without and with actions.
FrameActions ==
    { <<>>,
      <<PauseAt(OffInt(1), Secs(1))>>,
      <<DisconnectAt(OffR)>>,
      <<InjectAt(OffA, Lit("XY"))>>,
      <<InjectAt(OffInt(0), Lit("XY")), PauseAt(OffR, Secs(1))>> }

FrameCases ==
    { [msg |-> Message("WebsocketFrame", <<WF>> \o b \o a), settings |-> Settings("", ""),
       blocksize |-> bs]
        : b \in Bodies, a \in FrameActions, bs \in {SmallBlock, BLOCKSIZE} }

\* Responses whose body is a file, for every requested path of up to MaxComps
\* components, relative and absolute, and for staticdir unset, absolute (with
\* and without a trailing slash) and relative.
MaxComps == 3

PathComps == { <<".", ".">>, <<"s">>, <<"s", "e">>, <<"f">>, <<"~">> }

RequestedPaths ==
    LET rel == { joinslash(c) : c \in UNION { [1..k -> PathComps] : k \in 1..MaxComps } }
    IN  rel \cup { <<"/">> \o r : r \in rel }

StaticDirs ==
    { <<>>, <<"/", "s">>, <<"/", "s", "/">>, <<"s">>, <<"/", "w", "/", "s">>, <<"/", "h">> }

PathCases ==
    { [msg |-> Message("Response", <<Code(200), Raw, Body(ValueFile(r))>>),
       settings |-> FileSettings(d, uf), blocksize |-> BLOCKSIZE]
        : r \in RequestedPaths, d \in StaticDirs, uf \in BOOLEAN }

Cases ==
    HeaderCases \cup OffsetCases \cup EmitCases \cup TripleCases \cup FileValueCases
    \cup FrameCases \cup PathCases

(***************************************************************************)
(* The state machine: serve(msg, fp, settings).                            *)
(*   pc   "resolve": before msg.resolve(settings); "values": resolved,     *)
(*        before the values and actions are collected; "write": inside     *)
(*        write_values; "error": resolve raised RenderError; "done"        *)
(*   res  the resolved message                                             *)
(*   em   the emitter (write_values) state                                 *)
(*   sh   the same emission with every injected value empty, kept in step  *)
(*        with em on a writer that never fails                             *)
(***************************************************************************)
Init ==
    /\ \E c \in Cases :
        /\ msg = c.msg
        /\ settings = c.settings
        /\ blocksize = c.blocksize
    /\ pc = "resolve"
    /\ res = NoMessage
    /\ em = Idle
    /\ sh = Idle

\* The actions with every injected value replaced by an empty one.
EmptyInjects(acts) ==
    [k \in 1..Len(acts) |->
        IF acts[k].kind = "inject" THEN [acts[k] EXCEPT !.arg = LiteralGenerator("")]
        ELSE acts[k]]

\* msg = msg.resolve(settings)
ServeResolve ==
    /\ pc = "resolve"
    /\ ~RenderError(msg, settings)
    /\ ~ResolveAttributeError(msg)
    /\ \E rnd \in Draws(msg, settings) : res' = Resolve(msg, settings, rnd)
    /\ pc' = "values"
    /\ UNCHANGED <<msg, settings, blocksize, em, sh>>

\* msg.resolve(settings) raises RenderError, which serve lets through.
ServeRenderError ==
    /\ pc = "resolve"
    /\ RenderError(msg, settings)
    /\ pc' = "error"
    /\ UNCHANGED <<msg, settings, blocksize, res, em, sh>>

\* msg.resolve(settings) raises AttributeError, in serve and in freeze alike.
ServeAttributeError ==
    /\ pc = "resolve"
    /\ ResolveAttributeError(msg)
    /\ pc' = "crashed"
    /\ UNCHANGED <<msg, settings, blocksize, res, em, sh>>

\* freeze(settings) of the message: msg.resolve(settings), then the freeze of
\* every token; a RenderError of resolve passes through as it does in serve.
FreezeMessage ==
    /\ pc = "resolve"
    /\ ~RenderError(msg, settings)
    /\ ~ResolveAttributeError(msg)
    /\ \E rnd \in Draws(msg, settings) :
        \E data \in [GenerateIdx(Resolve(msg, settings, rnd).tokens) -> RandomChars] :
            res' = Freeze(msg, settings, rnd, data)
    /\ pc' = "frozen"
    /\ UNCHANGED <<msg, settings, blocksize, em, sh>>

PrepareDenied_ValuesOnly(m) == Denied(values(m))

\* msg.values(settings) or an intermediate(settings) raises FileAccessDenied.
PrepareDenied(m) ==
    \/ Denied(values(m))
    \/ \E i \in 1..Len(m.tokens) :
          m.tokens[i].t = "InjectAt" /\ Denied(<<get_generator(m.tokens[i].value)>>)

ServeFileAccessDenied ==
    /\ pc = "values"
    /\ PrepareDenied(res)
    /\ pc' = "error"
    /\ UNCHANGED <<msg, settings, blocksize, res, em, sh>>

\* vals = msg.values(settings) ... actions = [i.intermediate(settings) ...]
ServePrepare ==
    /\ pc = "values"
    /\ ~PrepareDenied(res)
    /\ em' = Emitter(ServeValues(res), ServeActions(res))
    /\ sh' = Emitter(ServeValues(res), EmptyInjects(ServeActions(res)))
    /\ pc' = "write"
    /\ UNCHANGED <<msg, settings, blocksize, res>>

\* msg.log(settings) builds the generators of the logged tokens once more:
\* code, reason and body of a Response, method, path and body of a Request,
\* the body of a WebsocketFrame.
LogDenied(m) ==
    \E kind \in {"Reason", "Method", "Path", "Body"} :
        /\ has(m, kind)
        /\ kind \in (CASE m.klass = "Response" -> {"Reason", "Body"}
                       [] m.klass = "Request" -> {"Method", "Path", "Body"}
                       [] OTHER -> {"Body"})
        /\ Denied(<<get_generator(tok(m, kind).value)>>)

\* After write_values: its TypeError leaves serve at once; after a return
\* serve builds the log, where a FileAccessDenied would leave it as well.
Finish(e) ==
    IF e.pc = "raised" THEN "done"
    ELSE IF e.pc = "returned" THEN (IF LogDenied(res) THEN "error" ELSE "done")
    ELSE "write"

Emit(e) ==
    /\ em' = e
    /\ sh' = WV_Step(sh, blocksize)
    /\ pc' = Finish(e)
    /\ UNCHANGED <<msg, settings, blocksize, res>>

PopValue ==
    /\ pc = "write" /\ em.pc = "outer" /\ em.vals # <<>>
    /\ Emit(WV_PopValue(em))

PopAction ==
    /\ pc = "write" /\ em.pc = "inner" /\ ActionDue(em)
    /\ \E j \in 0..NWrites(blocksize, em.offset, ChunkEnd(em, Top(em.actions))) :
        Emit(WV_PopAction(em, blocksize, j))

SendRest ==
    /\ pc = "write" /\ em.pc = "inner" /\ ~ActionDue(em)
    /\ \E j \in 0..NWrites(blocksize, em.offset, GenLen(em.v.gen)) :
        Emit(WV_SendRest(em, blocksize, j))

Pause ==
    /\ pc = "write" /\ em.pc = "dispatch" /\ em.a.kind = "pause"
    /\ Emit(WV_Pause(em))

Disconnect ==
    /\ pc = "write" /\ em.pc = "dispatch" /\ em.a.kind = "disconnect"
    /\ Emit(WV_Disconnect(em))

Inject ==
    /\ pc = "write" /\ em.pc = "dispatch" /\ em.a.kind = "inject"
    /\ \E j \in 0..NWrites(blocksize, 0, GenLen(em.a.arg)) :
        Emit(WV_Inject(em, blocksize, j))

PopRemainder ==
    /\ pc = "write" /\ em.pc = "outer" /\ em.vals = <<>> /\ em.actions # <<>>
    /\ Emit(WV_PopRemainder(em))

Return ==
    /\ pc = "write" /\ em.pc = "outer" /\ em.vals = <<>> /\ em.actions = <<>>
    /\ Emit(WV_Return(em))

Next ==
    \/ ServeResolve
    \/ ServeRenderError
    \/ ServeAttributeError
    \/ FreezeMessage
    \/ ServeFileAccessDenied
    \/ ServePrepare
    \/ PopValue
    \/ PopAction
    \/ SendRest
    \/ Pause
    \/ Disconnect
    \/ Inject
    \/ PopRemainder
    \/ Return

Spec == Init /\ [][Next]_vars

(***************************************************************************)
(* The Method token: its parser, Method.__init__ and Method.spec, on texts *)
(* that are sequences of characters.  A second specification parses a      *)
(* method text, asks the token for its spec() and parses that again:       *)
(*   pc   "parse", "spec", "reparse", "reparsed"                           *)
(*   msg  the text given to the parser and, once parsed, its token         *)
(*   res  the text spec() returned and, once parsed, its token             *)
(***************************************************************************)
\* Quoted literals of up to MaxLit letters are given to the parser.
MaxLit == 3

ascii_lowercase == <<"a", "b", "c", "d", "e", "f", "g", "h", "i", "j", "k", "l", "m", "n", "o", "p", "q", "r", "s", "t", "u", "v", "w", "x", "y", "z">>
ascii_uppercase == <<"A", "B", "C", "D", "E", "F", "G", "H", "I", "J", "K", "L", "M", "N", "O", "P", "Q", "R", "S", "T", "U", "V", "W", "X", "Y", "Z">>

\* str.lower and str.upper
lower(s) ==
    [i \in 1..Len(s) |->
        IF \E k \in 1..26 : ascii_uppercase[k] = s[i]
        THEN ascii_lowercase[CHOOSE k \in 1..26 : ascii_uppercase[k] = s[i]]
        ELSE s[i]]

upper(s) ==
    [i \in 1..Len(s) |->
        IF \E k \in 1..26 : ascii_lowercase[k] = s[i]
        THEN ascii_uppercase[CHOOSE k \in 1..26 : ascii_lowercase[k] = s[i]]
        ELSE s[i]]

\* Method.methods
methods ==
    { <<"g", "e", "t">>,
      <<"h", "e", "a", "d">>,
      <<"p", "o", "s", "t">>,
      <<"p", "u", "t">>,
      <<"d", "e", "l", "e", "t", "e">>,
      <<"o", "p", "t", "i", "o", "n", "s">>,
      <<"t", "r", "a", "c", "e">>,
      <<"c", "o", "n", "n", "e", "c", "t">> }

\* s.encode("string_escape") on letters, quotes and backslashes.
RECURSIVE string_escape(_)
string_escape(s) ==
    IF s = <<>> THEN <<>>
    ELSE (IF Head(s) \in {"'", "\\"} THEN <<"\\", Head(s)>> ELSE <<Head(s)>>)
         \o string_escape(Tail(s))

\* ValueLiteral.spec
ValueLiteralSpec(v) == <<"'">> \o string_escape(v.s) \o <<"'">>

\* s[1:-1]
Inner(s) == SubSeq(s, 2, Len(s) - 1)

\* Method.spec
MethodSpec(tk) ==
    LET s == ValueLiteralSpec(tk.value)
    IN  IF lower(Inner(s)) \in methods THEN lower(Inner(s)) ELSE s

\* Method.__init__ with a string: value = ValueLiteral(value.upper())
MethodOfKeyword(value) == Method(ValueLiteral(upper(value)))

\* Is the text a literal in single or double quotes (v_literal)?
Quoted(text) ==
    /\ Len(text) >= 2
    /\ text[1] \in {"'", "\""} /\ text[Len(text)] = text[1]
    /\ \A i \in 2..(Len(text) - 1) : text[i] \notin {"'", "\"", "\\"}

\* Method.expr on a whole text: a method keyword in any case gives the keyword
\* as Method.methods spells it, a quoted literal gives a ValueLiteral.
MethodParse(text) ==
    IF lower(text) \in methods THEN MethodOfKeyword(lower(text))
    ELSE IF Quoted(text) THEN Method(ValueLiteral(Inner(text)))
    ELSE None

\* The letters of the literals given to the parser.
Letters == {"g", "e", "t", "G", "E", "T"}

MethodTexts ==
    methods
    \cup { upper(m) : m \in methods }
    \cup { <<upper(m)[1]>> \o Tail(m) : m \in methods }
    \cup { <<"'">> \o m \o <<"'">> : m \in methods }
    \cup { <<"\"">> \o upper(m) \o <<"\"">> : m \in methods }
    \cup { <<"'">> \o l \o <<"'">> : l \in UNION { [1..k -> Letters] : k \in 1..MaxLit } }

MethodInit ==
    /\ \E text \in MethodTexts : msg = [text |-> text, tok |-> None]
    /\ pc = "parse"
    /\ res = [text |-> <<>>, tok |-> None]
    /\ settings = Settings("", "")
    /\ blocksize = BLOCKSIZE
    /\ em = Idle
    /\ sh = Idle

\* t = Method.expr().parseString(text)
ParseMethod ==
    /\ pc = "parse"
    /\ msg' = [msg EXCEPT !.tok = MethodParse(msg.text)]
    /\ pc' = "spec"
    /\ UNCHANGED <<settings, blocksize, res, em, sh>>

\* t.spec()
SpecOfMethod ==
    /\ pc = "spec"
    /\ res' = [res EXCEPT !.text = MethodSpec(msg.tok)]
    /\ pc' = "reparse"
    /\ UNCHANGED <<msg, settings, blocksize, em, sh>>

\* Method.expr().parseString(t.spec())
ReparseMethod ==
    /\ pc = "reparse"
    /\ res' = [res EXCEPT !.tok = MethodParse(res.text)]
    /\ pc' = "reparsed"
    /\ UNCHANGED <<msg, settings, blocksize, em, sh>>

MethodNext == ParseMethod \/ SpecOfMethod \/ ReparseMethod

SpecMethod == MethodInit /\ [][MethodNext]_vars

(***************************************************************************)
(* Properties.                                                             *)
(***************************************************************************)
Resolved == pc \in {"values", "write", "done"}

\* The offset of the token an entry of em.disp names.
OffsetOf(d) == res.tokens[d.tix].offset.n

KindOf(d) == res.tokens[d.tix].t

\* The value bytes of a stream of writes, each as <<value, position>>.
RECURSIVE ValueStream(_)
ValueStream(out) ==
    IF out = <<>> THEN <<>>
    ELSE (IF Head(out).src = "val"
          THEN [k \in 1..(Head(out).hi - Head(out).lo) |-> <<Head(out).id, Head(out).lo + k - 1>>]
          ELSE <<>>)
         \o ValueStream(Tail(out))

\* The concatenation of the values, each byte as <<value, position>>.
RECURSIVE Concatenation(_, _)
Concatenation(vals, i) ==
    IF i > Len(vals) THEN <<>>
    ELSE [k \in 1..GenLen(vals[i]) |-> <<i, k - 1>>] \o Concatenation(vals, i + 1)

DisconnectDispatched ==
    \E k \in 1..Len(em.disp) : KindOf(em.disp[k]) = "DisconnectAt"

\* C1: when write_values returns without a disconnect action and without a
\* writer failure, the value bytes it wrote (injected bytes removed) are the
\* concatenation of the values: every byte once, in order.
C1_EveryValueByteOnceInOrder ==
    (pc = "done" /\ em.result = "None")
        => ValueStream(em.out) = Concatenation(values(res), 1)

\* C2: every action is dispatched when exactly min(offset, total length of
\* the values) value bytes have been written.
C2_DispatchedAtItsOffset ==
    \A k \in 1..Len(em.disp) :
        em.disp[k].at = Min(OffsetOf(em.disp[k]), length(res))

\* C3: the actions are dispatched in ascending order of their offset, actions
\* with the same offset in the order of the token list, and an emission that
\* returns without a disconnect has dispatched every action.
C3_DispatchOrderStable ==
    /\ \A i, j \in 1..Len(em.disp) :
          i < j =>
            /\ OffsetOf(em.disp[i]) <= OffsetOf(em.disp[j])
            /\ OffsetOf(em.disp[i]) = OffsetOf(em.disp[j]) => em.disp[i].tix < em.disp[j].tix
    /\ (pc = "done" /\ em.result = "None") => Len(em.disp) = Len(actions(res))

\* Two actions of different kinds with the same offset were dispatched, in a
\* message whose token list names a later offset before an earlier one.
C3_Witness ==
    /\ pc = "done" /\ em.result = "None"
    /\ \E i, j \in 1..Len(em.disp) :
          /\ i < j
          /\ OffsetOf(em.disp[i]) = OffsetOf(em.disp[j])
          /\ KindOf(em.disp[i]) # KindOf(em.disp[j])
    /\ \E i \in 1..Len(res.tokens) : \E j \in 1..Len(res.tokens) :
          /\ i < j /\ IsAction(res.tokens[i]) /\ IsAction(res.tokens[j])
          /\ res.tokens[i].offset.n > res.tokens[j].offset.n

\* C4: an inject leaves the count of value bytes alone: every action is
\* dispatched after the same number of value bytes as in the emission whose
\* injected values are empty, and sofar and the in-value cursor agree with it.
C4_InjectLeavesCountsUnchanged ==
    /\ Len(em.disp) <= Len(sh.disp)
    /\ \A k \in 1..Len(em.disp) : em.disp[k] = sh.disp[k]
    /\ ~em.failed => (em.sofar = sh.sofar /\ em.offset = sh.offset /\ em.pc = sh.pc)

\* Injected bytes were written and another action was dispatched after them.
C4_Witness ==
    /\ pc = "done"
    /\ \E i, j \in 1..Len(em.disp) :
          /\ i < j
          /\ KindOf(em.disp[i]) = "InjectAt"
          /\ KindOf(em.disp[j]) = "PauseAt"
          /\ em.disp[j].at > em.disp[i].at
    /\ \E k \in 1..Len(em.out) : em.out[k].src = "inj" /\ em.out[k].hi > em.out[k].lo

\* C5, the states: a dispatched disconnect or a writer failure has ended the
\* call with True and nothing was dispatched after the disconnect; True is
\* returned for no other reason; a call that returned otherwise consumed every
\* value and action; the only other way out is the TypeError of a pause "f".
C5_DisconnectStates ==
    /\ (DisconnectDispatched \/ em.failed)
          => (em.pc = "returned" /\ em.result = "True" /\ pc = "done")
    /\ \A k \in 1..Len(em.disp) :
          KindOf(em.disp[k]) = "DisconnectAt" => k = Len(em.disp)
    /\ em.result = "True" => (DisconnectDispatched \/ em.failed)
    /\ (em.pc = "returned" /\ ~DisconnectDispatched /\ ~em.failed)
          => (em.result = "None" /\ em.vals = <<>> /\ em.actions = <<>>)
    /\ (pc = "write" /\ ~DisconnectDispatched /\ ~em.failed)
          => em.pc \in {"outer", "inner", "dispatch"}
    /\ em.pc = "raised"
          => (KindOf(em.disp[Len(em.disp)]) = "PauseAt"
              /\ res.tokens[em.disp[Len(em.disp)].tix].seconds.sym = "f")

\* C5: a disconnect is terminal and reported: after a dispatched disconnect
\* or a writer failure write_values has returned True, and from then on it
\* writes nothing and dispatches nothing; without either, the call that
\* returns has run to the end and its result is not True.
C5_DisconnectTerminal ==
    /\ []C5_DisconnectStates
    /\ [][(DisconnectDispatched \/ em.failed)
            => (em'.out = em.out /\ em'.disp = em.disp /\ em'.result = em.result)]_vars

\* A disconnect was dispatched while values were still waiting.
C5_Witness ==
    /\ pc = "done" /\ DisconnectDispatched /\ ~em.failed
    /\ em.vals # <<>> /\ em.out # <<>>

ContentLengths(m) ==
    SelectSeq(headers(m), LAMBDA h : h.key.vk = "lit" /\ h.key.s = "Content-Length")

\* C6: a Request or Response without Raw and without a Content-Length header
\* resolves with exactly one Content-Length header, whose value is the length
\* of the body, or 0 without a body.
C6_ContentLengthAppended ==
    (Resolved /\ ~raw(msg) /\ ContentLengths(msg) = <<>>)
        => /\ Len(ContentLengths(res)) = 1
           /\ ContentLengths(res)[1].value = ValueLiteral(ToString(BodyLength(msg)))

\* C7: with a Raw token the resolved message carries exactly the headers the
\* user supplied, in the same order.
C7_RawKeepsUserHeaders ==
    (Resolved /\ raw(msg)) => headers(res) = headers(msg)

\* The server handshake headers the user's message lacks.
HandshakeOwed ==
    SelectSeq(server_handshake_headers(settings.websocket_key),
              LAMBDA p : \A i \in 1..Len(headers(msg)) : headers(msg)[i].key # ValueLiteral(p[1]))

HandshakeDone ==
    /\ tok(res, "Code") = (IF has(msg, "Code") THEN tok(msg, "Code") ELSE Code(101))
    /\ \A k \in 1..Len(HandshakeOwed) :
          headers(res)[Len(headers(msg)) + k]
            = Header(ValueLiteral(HandshakeOwed[k][1]), ValueLiteral(HandshakeOwed[k][2]))

WSResponse == Resolved /\ msg.klass = "Response" /\ has(msg, "WS") /\ ~raw(msg)

\* C8 as claimed: a WS Response (websocket_key set, no Raw) resolves with Code
\* 101 when none was given, with the server handshake headers for every key not
\* present, and without a synthesized Content-Length header.
C8_NoContentLengthForWS ==
    WSResponse
        => /\ HandshakeDone
           /\ Len(headers(res)) = Len(headers(msg)) + Len(HandshakeOwed)

\* C8 amended: a WS Response (websocket_key set, no Raw) resolves with Code 101
\* when none was given, with the server handshake headers for every key not
\* present, and, after them, with one Content-Length header of the body's
\* length (0 without a body) unless the user supplied a Content-Length.
C8_ContentLengthAlsoForWS ==
    WSResponse
        => /\ HandshakeDone
           /\ IF ContentLengths(msg) # <<>>
              THEN Len(headers(res)) = Len(headers(msg)) + Len(HandshakeOwed)
              ELSE /\ Len(headers(res)) = Len(headers(msg)) + Len(HandshakeOwed) + 1
                   /\ headers(res)[Len(headers(res))] = ContentLength(BodyLength(msg))

\* A WS response without Code and with an Upgrade header of its own was resolved.
C8_Witness ==
    /\ WSResponse /\ ~has(msg, "Code") /\ ContentLengths(msg) = <<>>
    /\ Len(HandshakeOwed) = 2 /\ has(msg, "Body")

\* C9: resolving the resolved message again succeeds and yields the same
\* token list, whatever the random draws.
C9_ResolveIdempotent ==
    Resolved
        => /\ ~RenderError(res, settings)
           /\ \A rnd \in Draws(res, settings) : Resolve(res, settings, rnd).tokens = res.tokens

\* A WS message with a random offset whose resolve synthesized tokens.
C9_Witness ==
    /\ Resolved /\ has(msg, "WS")
    /\ \E i \in 1..Len(msg.tokens) : IsAction(msg.tokens[i]) /\ msg.tokens[i].offset.sym = "r"
    /\ Len(res.tokens) > Len(msg.tokens) + 3

\* C10: after resolve every action offset is an integer: an integer offset is
\* unchanged, r lies in [0, L) and a is L + 1, with L the length of the
\* message including the headers resolve synthesized; nothing else of an
\* action changes.
C10_OffsetsResolved ==
    Resolved =>
        LET am == actions(msg)
            ar == actions(res)
            L == length(res)
        IN  /\ Len(am) = Len(ar)
            /\ \A k \in 1..Len(am) :
                  LET o == msg.tokens[am[k]]
                      n == res.tokens[ar[k]]
                  IN  /\ n.offset.sym = "int"
                      /\ [n EXCEPT !.offset = o.offset] = o
                      /\ o.offset.sym = "int" => n.offset = o.offset
                      /\ o.offset.sym = "r" => n.offset.n \in 0..(L - 1)
                      /\ o.offset.sym = "a" => n.offset.n = L + 1

\* An action with offset a was resolved in a message that gained headers.
C10_Witness ==
    /\ Resolved
    /\ Len(headers(res)) > Len(headers(msg)) + 1
    /\ \E i \in 1..Len(msg.tokens) : IsAction(msg.tokens[i]) /\ msg.tokens[i].offset.sym = "a"

\* The values of the tokens of a message.
MessageValues(m) == UNION { TokenValues(m.tokens[i]) : i \in 1..Len(m.tokens) }

\* C11: a frozen message holds no Generate and no File value: every value of
\* every token (header keys and values, body, path, method, reason, inject
\* values) is a Literal.
C11_FrozenValuesAreLiterals ==
    pc = "frozen" => \A v \in MessageValues(res) : v.vk = "lit"

\* C12: the Method token round-trips through spec(): parsing t.spec() gives a
\* Method with the same value bytes as t, for a keyword in any case and for a
\* quoted literal, whose case is kept.
C12_MethodRoundTrip ==
    pc = "reparsed" => (res.tok # None /\ res.tok.value = msg.tok.value)

\* A PauseAt whose seconds field is f was dispatched.
ForeverDispatched ==
    \E k \in 1..Len(em.disp) :
        KindOf(em.disp[k]) = "PauseAt" /\ res.tokens[em.disp[k].tix].seconds.sym = "f"

\* C13: once a PauseAt with seconds f is dispatched the emission stays
\* suspended: write_values has neither returned nor failed and serve is not
\* over.
C13_ForeverPauseSuspends ==
    (pc \in {"write", "done"} /\ ForeverDispatched)
        => (em.pc \notin {"returned", "raised"} /\ pc = "write")

\* A Response with a body whose only action is a PauseAt with an integer
\* offset not larger than the body length and an integer number of seconds.
BodyAndPause ==
    /\ pc \in {"write", "done"}
    /\ msg.klass = "Response" /\ has(msg, "Body")
    /\ Len(actions(msg)) = 1
    /\ LET a == msg.tokens[actions(msg)[1]]
       IN  /\ a.t = "PauseAt" /\ a.offset.sym = "int" /\ a.seconds.sym = "int"
           /\ a.offset.n <= BodyLength(msg)

PauseOffset == msg.tokens[actions(msg)[1]].offset.n

C15_FrameWithActionsResolves ==
    (msg.klass = "WebsocketFrame" /\ actions(msg) # <<>> /\ pc # "resolve")
        => /\ pc \in {"values", "write", "done", "frozen"}
           /\ Len(actions(res)) = Len(actions(msg))
           /\ \A k \in 1..Len(actions(res)) :
                 LET o == msg.tokens[actions(msg)[k]]
                     n == res.tokens[actions(res)[k]]
                 IN  /\ n.offset.sym = "int"
                     /\ o.offset.sym = "r" => n.offset.n \in 0..(length(res) - 1)
                     /\ o.offset.sym = "a" => n.offset.n = length(res) + 1

\* C16: a RenderError of serve (a WS Response without websocket_key, a
\* FileAccessDenied of any file value) is raised before the first write: serve
\* has written nothing when it raises, and no byte is ever written of a
\* message whose resolution or generator construction fails.
C16_RenderErrorBeforeFirstWrite ==
    /\ pc = "error" => em.out = <<>>
    /\ em.out # <<>>
          => /\ ~(msg.klass = "Response" /\ has(msg, "WS") /\ settings.websocket_key = "")
             /\ \A v \in MessageValues(res) : get_generator(v).g # "denied"

\* serve raised FileAccessDenied for the file of an inject action, after a
\* resolve that succeeded.
C16_Witness ==
    /\ pc = "error" /\ res # NoMessage
    /\ ~Denied(values(res))
    /\ \E i \in 1..Len(res.tokens) :
          /\ res.tokens[i].t = "InjectAt" /\ res.tokens[i].value.vk = "file"
          /\ res.tokens[i].offset.n < length(res)

\* The directory tree of staticdir holds the path p.
InsideStaticdir(p) ==
    LET root == normpath(abspath(settings.staticdir))
    IN  p = root \/ root = <<"/">> \/ startswith(p, root \o <<"/">>)

\* C17: with unconstrained_file_access false a generator is made only for a
\* file in the directory tree of staticdir: once serve has built the
\* generators, staticdir is set and every file value names a path that is
\* staticdir itself or lies below it.
C17_FilesInsideStaticdir ==
    (pc \in {"write", "done"} /\ ~settings.unconstrained_file_access)
        => \A v \in MessageValues(res) :
              v.vk = "file"
                => /\ settings.staticdir # <<>>
                   /\ InsideStaticdir(FilePath(v.path, settings))

====
